---- MODULE Spec2Model ----
(***************************************************************************)
(* Model of the Xilem chess GUI shell (src/src/main.rs): the AppState, its *)
(* periodic tick, the UI callbacks and the background search threads that  *)
(* share one engine game behind a mutex.  The engine (mod engine) is not   *)
(* part of the sources; it is modelled from its specification as a small   *)
(* board game with the same call contract.                                 *)
(*                                                                         *)
(* An Option<T> is a sequence of length at most one: <<>> is None and      *)
(* <<x>> is Some(x).                                                       *)
(***************************************************************************)
EXTENDS Integers, Sequences, FiniteSets, TLC

\* ------------------------------------------------------------------ bounds

\* Number of squares of the board (BOARD_SIZE * BOARD_SIZE in the program).
NumSquares == 3
\* Cap on the number of entries of the move list (and so on move_counter).
MaxMoves == 2
\* Cap on each side's clock, in timer ticks.
MaxClock == 2
\* Number of search threads that may exist at the same time.
MaxWorkers == 2
\* Number of UI events (clicks, toggles, slider changes, button presses) of a run.
MaxEvents == 4

Squares == 0 .. (NumSquares - 1)
Workers == 1 .. MaxWorkers
None == <<>>
Some(x) == <<x>>

\* ------------------------------------------------------- engine (from spec)

KING_VALUE == 4
KING_VALUE_DIV_2 == 2
STATE_PLAYING == "playing"
STATE_CHECK == "check"
STATE_CHECKMATE == "checkmate"
STATE_DRAWN == "drawn"
TerminalStates == {STATE_CHECKMATE, STATE_DRAWN}

\* Time values are counted in units of which an f32 resolves every fourth:
\* 8 is 1.5 s (exact in both widths), 13 stands for a slider value an f32
\* cannot hold.
TimePerMoveDefault == 8
SliderValues == {TimePerMoveDefault, 13}
AsF32(x) == ((x + 2) \div 4) * 4

\* The starting layout: a white piece on the first square, a black piece on
\* the last one.
StartBoard == [s \in Squares |-> IF s = 0 THEN 1 ELSE IF s = NumSquares - 1 THEN -1 ELSE 0]

new_game(secs) == [board |-> StartBoard, move_counter |-> 0, secs_per_move |-> secs]

\* A reset that forgets to rewind the move counter.
reset_game_keepsCounter(g) == [g EXCEPT !.board = StartBoard]
reset_game(g) == [g EXCEPT !.board = StartBoard, !.move_counter = 0]

get_board(g) == g.board

\* Sign of the pieces of the side to move: move_counter % 2 = 0 is White.
SideSign(g) == IF g.move_counter % 2 = 0 THEN 1 ELSE -1

\* Legal destinations of the piece on `source`: a piece of the side to move
\* reaches every square not held by a piece of its own side.
tag(g, source) ==
    IF source \in Squares /\ g.board[source] * SideSign(g) > 0
    THEN {d \in Squares : d # source /\ g.board[d] * SideSign(g) <= 0}
    ELSE {}

move_is_valid2(g, source, dest) == dest \in tag(g, source)

LegalMoves(g) == {m \in Squares \X Squares : m[2] \in tag(g, m[1])}

FLAG_INVALID == "invalid"
FLAG_NORMAL == "normal"
FLAG_CAPTURE == "capture"

\* The move-class flag do_move returns.
MoveFlag(g, source, dest) ==
    IF ~move_is_valid2(g, source, dest) THEN FLAG_INVALID
    ELSE IF g.board[dest] # 0 THEN FLAG_CAPTURE ELSE FLAG_NORMAL

\* The position after do_move.  An illegal pair leaves the position unmutated.
do_move(g, source, dest) ==
    IF ~move_is_valid2(g, source, dest) THEN g
    ELSE [g EXCEPT !.board = [g.board EXCEPT ![dest] = g.board[source], ![source] = 0],
                   !.move_counter = g.move_counter + 1]

\* Notation of a move, evaluated against the position g after the move: the
\* squares, the move class and the suffix "#" when the side to move in g has
\* no legal move left.
move_to_str(g, source, dest, flag) ==
    <<source, dest, flag, IF LegalMoves(g) = {} THEN "#" ELSE "">>

\* A move wins when it takes the last piece of the other side.
Winning(g, m) ==
    /\ g.board[m[2]] # 0
    /\ \A s \in Squares \ {m[2]} : g.board[s] * SideSign(g) >= 0

\* The results reply may return on position g.  With no legal move the
\* result carries a terminal state and src/dst are not meaningful; whether
\* the side to move stands in check is not modelled, so either
\* classification may come back.
ReplyResults(g) ==
    IF LegalMoves(g) = {}
    THEN {[src |-> 0, dst |-> d, score |-> IF st = STATE_CHECKMATE THEN -KING_VALUE ELSE 0,
           checkmate_in |-> 0, state |-> st] :
              d \in {0, NumSquares - 1}, st \in TerminalStates}
    ELSE {[src |-> m[1], dst |-> m[2],
           score |-> IF Winning(g, m) THEN KING_VALUE - 1 ELSE 0,
           checkmate_in |-> IF Winning(g, m) THEN 2 ELSE 0,
           state |-> st] : m \in LegalMoves(g), st \in {STATE_PLAYING, STATE_CHECK}}

\* ------------------------------------------------------------ the program

VARIABLES
    game,               \* the engine::Game inside the Arc<Mutex<..>>
    holder,             \* Option: the search thread that holds the game mutex
    saved,              \* Option: the position a running search restores on undo
    wpc,                \* search thread -> "free" | "spawned" | "reply" | "probe" | "send"
    wres,               \* search thread -> Option: the Move its reply returned
    chan,               \* channel (one per search thread) -> Option: the Move sent
    rx,                 \* AppState.rx: Option of a channel
    board,              \* AppState.board
    selected,           \* AppState.selected
    square_tags,        \* AppState.square_tags
    phase,              \* AppState.phase
    status,             \* AppState.status
    players,            \* AppState.players, indexed 0 (white) and 1 (black)
    engine_plays_white, \* AppState.engine_plays_white
    engine_plays_black, \* AppState.engine_plays_black
    rotated,            \* AppState.rotated
    time_per_move,      \* AppState.time_per_move
    time_elapsed,       \* AppState.time_elapsed, in timer ticks
    turn,               \* AppState.turn
    pending_move,       \* AppState.pending_move
    movelist,           \* AppState.movelist
    mpc,                \* where the interactive thread stands: "idle" or inside a handler
    events,             \* number of UI events so far
    stale,              \* history: the searches outdated or abandoned since their dispatch
    offered,            \* history: Option, the position the first click called tag on
    asked,              \* history: search thread -> time_per_move at its dispatch (0: none)
    calls               \* history: the engine calls the last step made, in order

engineVars == <<game, holder, saved, wpc, wres, chan>>
vars == <<game, holder, saved, wpc, wres, chan, rx, board, selected, square_tags, phase,
          status, players, engine_plays_white, engine_plays_black, rotated, time_per_move,
          time_elapsed, turn, pending_move, movelist, mpc, events, stale, offered, asked, calls>>

Human == "Human"
Engine == "Engine"
PLAYER_FOR_ENGINE_FLAG(flag) == IF flag THEN Engine ELSE Human

\* The phases in which tick advances a clock.
ActivePhases_withUninitialized ==
    {"Uninitialized", "Ready", "MoveAttempt", "EngineThinking", "EnginePlaying"}
ActivePhases == {"Ready", "MoveAttempt", "EngineThinking", "EnginePlaying"}

\* engine_to_board: the piece view of an engine board.
PieceOf(val) ==
    CASE val = 1 -> Some(<<"Pawn", "White">>)
      [] val = 2 -> Some(<<"Knight", "White">>)
      [] val = 3 -> Some(<<"Bishop", "White">>)
      [] val = 4 -> Some(<<"Rook", "White">>)
      [] val = 5 -> Some(<<"Queen", "White">>)
      [] val = 6 -> Some(<<"King", "White">>)
      [] val = -1 -> Some(<<"Pawn", "Black">>)
      [] val = -2 -> Some(<<"Knight", "Black">>)
      [] val = -3 -> Some(<<"Bishop", "Black">>)
      [] val = -4 -> Some(<<"Rook", "Black">>)
      [] val = -5 -> Some(<<"Queen", "Black">>)
      [] val = -6 -> Some(<<"King", "Black">>)
      [] OTHER -> None

engine_to_board(engine_board) == [i \in Squares |-> PieceOf(engine_board[i])]

NoTags == [s \in Squares |-> 0]

\* The status line: its text; a move's notation inside it is named, not spelled.
INVALID_MOVE == "Invalid move."
CHECKMATE_TEXT == "Checkmate, game terminated!"

\* The search threads inside reply.
InReply == {w \in Workers : wpc[w] \in {"reply", "probe"}}
Searching == InReply # {}

\* Mutex::try_lock succeeds when nobody holds the mutex.
TryLockOk_ignoresHolder == TRUE
TryLockOk == holder = None

\* Mutex::lock returns once nobody else holds the mutex.
LockFree_always == TRUE
LockFree == holder = None

\* One engine call, as the history records it: the operation, its arguments
\* and result, move_counter when it was called, whether a search thread was
\* inside reply, and for a do_move of an engine move the state of the reply
\* result and whether its search was stale.
EngineCall(op, args, res) ==
    [op |-> op, args |-> args, res |-> res, mc |-> game.move_counter,
     searching |-> Searching, mvstate |-> "", stale |-> FALSE]

Init ==
    /\ game = new_game(AsF32(TimePerMoveDefault))
    /\ holder = None
    /\ saved = None
    /\ wpc = [w \in Workers |-> "free"]
    /\ wres = [w \in Workers |-> None]
    /\ chan = [w \in Workers |-> None]
    /\ rx = None
    /\ board = engine_to_board(get_board(game))
    /\ selected = None
    /\ square_tags = NoTags
    /\ phase = "Uninitialized"
    /\ status = "Tiny chess"
    /\ players = [i \in {0, 1} |-> IF i = 0 THEN Human ELSE Engine]
    /\ engine_plays_white = FALSE
    /\ engine_plays_black = TRUE
    /\ rotated = FALSE
    /\ time_per_move = TimePerMoveDefault
    /\ time_elapsed = [i \in {0, 1} |-> 0]
    /\ turn = 0
    /\ pending_move = None
    /\ movelist = <<>>
    /\ mpc = "idle"
    /\ events = 0
    /\ stale = {}
    /\ offered = None
    /\ asked = [w \in Workers |-> 0]
    /\ calls = <<>>

\* ------------------------------------------------------------------- tick

\* Searches that still run or whose result still waits in a channel.
Alive == {w \in Workers : wpc[w] # "free" \/ chan[w] # None}

\* Of the searches S, those that still exist after the step.
Keep(S) == {w \in S : wpc'[w] # "free" \/ chan'[w] # None}

\* A UI event that takes the phase away from EnginePlaying abandons the
\* search whose result the tick was polling for.
Abandoned == IF phase = "EnginePlaying" /\ rx # None THEN {rx[1]} ELSE {}

FreeSlots == {w \in Workers : wpc[w] = "free"}
NewSlot == CHOOSE w \in FreeSlots : \A v \in FreeSlots : w <= v

\* tick, up to the match on the phase: the clock of the side to move and the
\* board view, which is synced only when the mutex is free.  In Phase::Ready
\* and Phase::Inactive the match does nothing and the tick is over.  The
\* clocks are counted up to MaxClock; `overrun` is a tick past that reading,
\* which leaves the counted clock where it is.
TickBody(overrun) ==
    /\ mpc = "idle"
    /\ overrun = (phase \in ActivePhases /\ time_elapsed[turn] = MaxClock)
    /\ phase \in {"MoveAttempt", "EnginePlaying"} => Len(movelist) < MaxMoves
    /\ phase = "EngineThinking" => FreeSlots # {}
    /\ time_elapsed' = IF phase \in ActivePhases /\ ~overrun
                       THEN [time_elapsed EXCEPT ![turn] = @ + 1]
                       ELSE time_elapsed
    /\ IF TryLockOk
       THEN /\ board' = engine_to_board(get_board(game))
            /\ calls' = <<EngineCall("get_board", <<>>, "")>>
       ELSE /\ board' = board
            /\ calls' = <<>>
    /\ mpc' = IF phase \in {"Ready", "Inactive"} THEN "idle" ELSE "tick"
    /\ UNCHANGED <<engineVars, asked, rx, selected, square_tags, phase, status, players,
                   engine_plays_white, engine_plays_black, rotated, time_per_move, turn,
                   pending_move, movelist, events, stale, offered>>

\* A tick within the counted range of the clocks.
Tick == TickBody(FALSE)

\* A tick after the clock of the side to move has reached MaxClock.
TickOverrun == TickBody(TRUE)

\* Phase::Uninitialized: decide whose turn it is, under the mutex.
TickUninitialized ==
    /\ mpc = "tick"
    /\ phase = "Uninitialized"
    /\ LockFree
    /\ turn' = game.move_counter % 2
    /\ phase' = IF players[turn'] = Human THEN "Ready" ELSE "EngineThinking"
    /\ mpc' = "idle"
    /\ calls' = <<>>
    /\ UNCHANGED <<engineVars, asked, rx, board, selected, square_tags, status, players,
                   engine_plays_white, engine_plays_black, rotated, time_per_move,
                   time_elapsed, pending_move, movelist, events, stale, offered>>

\* The test that turns a pending move down.
MoveRejected_ignoresValid(from_idx, to_idx, valid) == from_idx = to_idx
MoveRejected(from_idx, to_idx, valid) == from_idx = to_idx \/ ~valid

BoolStr(b) == IF b THEN "true" ELSE "false"

\* The game handed to move_to_str: the locked game, which do_move has just
\* changed from `before` to `after`.
RenderedOn_before(before, after) == before
RenderedOn(before, after) == after

\* Phase::MoveAttempt: validate the pending human move and apply it.
TickMoveAttempt ==
    /\ mpc = "tick"
    /\ phase = "MoveAttempt"
    /\ IF pending_move = None
       THEN /\ calls' = <<>>
            /\ UNCHANGED <<game, square_tags, status, movelist, stale>>
       ELSE /\ LockFree
            /\ LET from_idx == pending_move[1]
                   to_idx == pending_move[2]
                   valid == move_is_valid2(game, from_idx, to_idx)
                   c1 == EngineCall("move_is_valid2", <<from_idx, to_idx>>, BoolStr(valid))
               IN IF MoveRejected(from_idx, to_idx, valid)
                  THEN /\ square_tags' = NoTags
                       /\ status' = INVALID_MOVE
                       /\ calls' = <<c1>>
                       /\ UNCHANGED <<game, movelist, stale>>
                  ELSE LET flag == MoveFlag(game, from_idx, to_idx)
                           g2 == do_move(game, from_idx, to_idx)
                           shown == RenderedOn(game, g2)
                           notation == move_to_str(shown, from_idx, to_idx, flag)
                       IN /\ game' = g2
                          /\ movelist' = Append(movelist, notation)
                          /\ status' = "<notation>"
                          /\ square_tags' = [NoTags EXCEPT ![from_idx] = 2, ![to_idx] = 2]
                          /\ stale' = Alive
                          /\ calls' = <<c1,
                                        EngineCall("do_move", <<from_idx, to_idx>>, flag),
                                        [EngineCall("move_to_str", <<from_idx, to_idx, flag>>,
                                                    notation)
                                            EXCEPT !.mc = shown.move_counter]>>
    /\ pending_move' = None
    /\ offered' = None
    /\ phase' = "Uninitialized"
    /\ mpc' = "idle"
    /\ UNCHANGED <<holder, saved, wpc, wres, chan, asked, rx, board, selected, players,
                   engine_plays_white, engine_plays_black, rotated, time_per_move,
                   time_elapsed, turn, events>>

\* The receiver AppState keeps once a new channel `c` was made.
NewRx_keepsOld(old, c) == IF old # None THEN old ELSE c
NewRx_dropped(old, c) == None
NewRx(old, c) == c

\* Phase::EngineThinking: set the time budget if the mutex is free, make a
\* channel and spawn the search thread.
TickEngineThinking ==
    /\ mpc = "tick"
    /\ phase = "EngineThinking"
    /\ FreeSlots # {}
    /\ LET w == NewSlot
           newrx == NewRx(rx, Some(w))
       IN /\ phase' = "EnginePlaying"
          /\ game' = IF TryLockOk
                     THEN [game EXCEPT !.secs_per_move = AsF32(time_per_move)]
                     ELSE game
          /\ rx' = newrx
          /\ chan' = [c \in Workers |->
                        IF c # w /\ newrx = Some(c) THEN chan[c] ELSE None]
          /\ wpc' = [wpc EXCEPT ![w] = "spawned"]
          /\ wres' = [wres EXCEPT ![w] = None]
          /\ asked' = [asked EXCEPT ![w] = time_per_move]
          /\ stale' = Keep(stale \ {w})
    /\ mpc' = "idle"
    /\ calls' = <<>>
    /\ UNCHANGED <<holder, saved, board, selected, square_tags, status, players,
                   engine_plays_white, engine_plays_black, rotated, time_per_move,
                   time_elapsed, turn, pending_move, movelist, events, offered>>

Abs(x) == IF x < 0 THEN -x ELSE x

\* Phase::EnginePlaying: poll the channel; apply the engine's move once it
\* has arrived.
TickEnginePlaying ==
    /\ mpc = "tick"
    /\ phase = "EnginePlaying"
    /\ IF rx = None \/ chan[rx[1]] = None
       THEN /\ calls' = <<>>
            /\ UNCHANGED <<game, chan, rx, square_tags, status, movelist, phase, stale>>
       ELSE /\ LockFree
            /\ LET w == rx[1]
                   mv == chan[w][1]
                   flag == MoveFlag(game, mv.src, mv.dst)
                   g2 == do_move(game, mv.src, mv.dst)
                   shown == RenderedOn(game, g2)
                   notation == move_to_str(shown, mv.src, mv.dst, flag)
               IN /\ square_tags' = [NoTags EXCEPT ![mv.src] = 2, ![mv.dst] = 2]
                  /\ game' = g2
                  /\ movelist' = Append(movelist, notation)
                  /\ rx' = None
                  /\ chan' = [chan EXCEPT ![w] = None]
                  /\ IF mv.state = STATE_CHECKMATE
                     THEN /\ status' = CHECKMATE_TEXT
                          /\ phase' = "Inactive"
                     ELSE IF Abs(mv.score) > KING_VALUE_DIV_2
                     THEN /\ status' = "<notation> (scr: <score>) Checkmate in <turns>"
                          /\ phase' = "Uninitialized"
                     ELSE /\ status' = "<notation> (scr: <score>)"
                          /\ phase' = "Uninitialized"
                  /\ stale' = Alive \ {w}
                  /\ calls' = <<[EngineCall("do_move", <<mv.src, mv.dst>>, flag)
                                    EXCEPT !.mvstate = mv.state, !.stale = w \in stale],
                                [EngineCall("move_to_str", <<mv.src, mv.dst, flag>>, notation)
                                    EXCEPT !.mc = shown.move_counter]>>
    /\ mpc' = "idle"
    /\ UNCHANGED <<holder, saved, wpc, wres, asked, board, selected, players,
                   engine_plays_white, engine_plays_black, rotated, time_per_move,
                   time_elapsed, turn, pending_move, events, offered>>

\* ----------------------------------------------------------- UI callbacks

\* A board button, up to the lock taken for tag: the match on the selection.
ClickSquare(idx) ==
    /\ mpc = "idle"
    /\ events < MaxEvents
    /\ events' = events + 1
    /\ IF selected = None
       THEN IF board[idx] # None
            THEN /\ selected' = Some(idx)
                 /\ pending_move' = None
                 /\ square_tags' = NoTags
                 /\ mpc' = "click"
                 /\ offered' = None
                 /\ UNCHANGED <<phase, stale>>
            ELSE UNCHANGED <<selected, pending_move, square_tags, mpc, phase, stale, offered>>
       ELSE IF selected[1] # idx
            THEN /\ pending_move' = <<selected[1], idx>>
                 /\ selected' = None
                 /\ phase' = "MoveAttempt"
                 /\ stale' = stale \cup Abandoned
                 /\ UNCHANGED <<square_tags, mpc, offered>>
            ELSE /\ selected' = None
                 /\ pending_move' = None
                 /\ square_tags' = NoTags
                 /\ offered' = None
                 /\ UNCHANGED <<mpc, phase, stale>>
    /\ calls' = <<>>
    /\ UNCHANGED <<engineVars, asked, rx, board, status, players, engine_plays_white,
                   engine_plays_black, rotated, time_per_move, time_elapsed, turn, movelist>>

\* First click, under the mutex: highlight the legal targets of the piece.
ClickTag ==
    /\ mpc = "click"
    /\ LockFree
    /\ LET idx == selected[1]
           targets == tag(game, idx)
       IN /\ square_tags' = [s \in Squares |->
                               IF s = idx THEN -1 ELSE IF s \in targets THEN 1
                               ELSE square_tags[s]]
          /\ calls' = <<EngineCall("tag", <<idx>>, "")>>
    /\ phase' = "Ready"
    /\ stale' = stale \cup Abandoned
    /\ offered' = Some(game)
    /\ mpc' = "idle"
    /\ UNCHANGED <<engineVars, asked, rx, board, selected, status, players, engine_plays_white,
                   engine_plays_black, rotated, time_per_move, time_elapsed, turn,
                   pending_move, movelist, events>>

\* The slider of the time per engine move.
SliderChange(val) ==
    /\ mpc = "idle"
    /\ events < MaxEvents
    /\ events' = events + 1
    /\ time_per_move' = val
    /\ calls' = <<>>
    /\ UNCHANGED <<engineVars, asked, rx, board, selected, square_tags, phase, status, players,
                   engine_plays_white, engine_plays_black, rotated, time_elapsed, turn,
                   pending_move, movelist, mpc, stale, offered>>

\* The phase a player checkbox leaves behind.
PhaseAfterToggle_keepsPhase(p) == p
PhaseAfterToggle(p) == "Uninitialized"

\* Checkbox "Engine plays white".
ToggleEngineWhite ==
    /\ mpc = "idle"
    /\ events < MaxEvents
    /\ events' = events + 1
    /\ engine_plays_white' = ~engine_plays_white
    /\ players' = [players EXCEPT ![0] = PLAYER_FOR_ENGINE_FLAG(engine_plays_white')]
    /\ phase' = PhaseAfterToggle(phase)
    /\ stale' = IF phase' # phase THEN stale \cup Abandoned ELSE stale
    /\ calls' = <<>>
    /\ UNCHANGED <<engineVars, asked, rx, board, selected, square_tags, status, engine_plays_black,
                   rotated, time_per_move, time_elapsed, turn, pending_move, movelist, mpc,
                   offered>>

\* Checkbox "Engine plays black".
ToggleEngineBlack ==
    /\ mpc = "idle"
    /\ events < MaxEvents
    /\ events' = events + 1
    /\ engine_plays_black' = ~engine_plays_black
    /\ players' = [players EXCEPT ![1] = PLAYER_FOR_ENGINE_FLAG(engine_plays_black')]
    /\ phase' = PhaseAfterToggle(phase)
    /\ stale' = IF phase' # phase THEN stale \cup Abandoned ELSE stale
    /\ calls' = <<>>
    /\ UNCHANGED <<engineVars, asked, rx, board, selected, square_tags, status, engine_plays_white,
                   rotated, time_per_move, time_elapsed, turn, pending_move, movelist, mpc,
                   offered>>

\* Button "Rotate".
Rotate ==
    /\ mpc = "idle"
    /\ events < MaxEvents
    /\ events' = events + 1
    /\ rotated' = ~rotated
    /\ calls' = <<>>
    /\ UNCHANGED <<engineVars, asked, rx, board, selected, square_tags, phase, status, players,
                   engine_plays_white, engine_plays_black, time_per_move, time_elapsed,
                   turn, pending_move, movelist, mpc, stale, offered>>

\* A button whose callback starts by locking the game: "new_game" or "print".
PressLocked(button) ==
    /\ mpc = "idle"
    /\ events < MaxEvents
    /\ events' = events + 1
    /\ mpc' = button
    /\ calls' = <<>>
    /\ UNCHANGED <<engineVars, asked, rx, board, selected, square_tags, phase, status, players,
                   engine_plays_white, engine_plays_black, rotated, time_per_move,
                   time_elapsed, turn, pending_move, movelist, stale, offered>>

\* Button "New game", under the mutex.
NewGame ==
    /\ mpc = "new_game"
    /\ LockFree
    /\ game' = reset_game(game)
    /\ board' = engine_to_board(get_board(game'))
    /\ square_tags' = NoTags
    /\ selected' = None
    /\ pending_move' = None
    /\ offered' = None
    /\ rx' = None
    /\ chan' = [c \in Workers |-> None]
    /\ phase' = "Uninitialized"
    /\ time_elapsed' = [i \in {0, 1} |-> 0]
    /\ movelist' = <<>>
    /\ stale' = {w \in Workers : wpc[w] # "free"}
    /\ mpc' = "idle"
    /\ calls' = <<EngineCall("reset_game", <<>>, ""),
                  [EngineCall("get_board", <<>>, "") EXCEPT !.mc = 0]>>
    /\ UNCHANGED <<holder, saved, wpc, wres, asked, status, players, engine_plays_white,
                   engine_plays_black, rotated, time_per_move, turn, events>>

\* Button "Print movelist", under the mutex.
PrintMovelist ==
    /\ mpc = "print"
    /\ LockFree
    /\ mpc' = "idle"
    /\ calls' = <<EngineCall("print_move_list", <<>>, "")>>
    /\ UNCHANGED <<engineVars, asked, rx, board, selected, square_tags, phase, status, players,
                   engine_plays_white, engine_plays_black, rotated, time_per_move,
                   time_elapsed, turn, pending_move, movelist, events, stale, offered>>

\* --------------------------------------------------------- search threads

appVars == <<rx, board, selected, square_tags, phase, status, players, engine_plays_white,
             engine_plays_black, rotated, time_per_move, time_elapsed, turn, pending_move,
             movelist, mpc, events, offered>>

\* The spawned thread locks the game and enters reply.
WorkerLock(w) ==
    /\ wpc[w] = "spawned"
    /\ LockFree
    /\ holder' = Some(w)
    /\ wpc' = [wpc EXCEPT ![w] = "reply"]
    /\ asked' = [asked EXCEPT ![w] = 0]
    /\ calls' = <<EngineCall("reply", <<game.secs_per_move>>, "")>>
    /\ UNCHANGED <<game, saved, wres, chan, appVars, stale>>

\* reply explores a continuation: do_move in probing mode on the shared game.
ProbeDo(w) ==
    /\ wpc[w] = "reply"
    /\ \E m \in LegalMoves(game) : game' = do_move(game, m[1], m[2])
    /\ saved' = Some(game)
    /\ wpc' = [wpc EXCEPT ![w] = "probe"]
    /\ calls' = <<>>
    /\ UNCHANGED <<holder, wres, chan, asked, appVars, stale>>

\* reply takes the probed move back.
ProbeUndo(w) ==
    /\ wpc[w] = "probe"
    /\ saved # None
    /\ game' = saved[1]
    /\ saved' = None
    /\ wpc' = [wpc EXCEPT ![w] = "reply"]
    /\ calls' = <<>>
    /\ UNCHANGED <<holder, wres, chan, asked, appVars, stale>>

\* reply returns its result and the thread lets go of the mutex.
ReplyReturn(w) ==
    /\ wpc[w] = "reply"
    /\ \E r \in ReplyResults(game) : wres' = [wres EXCEPT ![w] = Some(r)]
    /\ holder' = None
    /\ wpc' = [wpc EXCEPT ![w] = "send"]
    /\ calls' = <<>>
    /\ UNCHANGED <<game, saved, chan, asked, appVars, stale>>

\* tx.send: the move reaches the channel unless its receiver was dropped.
WorkerSend(w) ==
    /\ wpc[w] = "send"
    /\ chan' = IF rx = Some(w) THEN [chan EXCEPT ![w] = wres[w]] ELSE chan
    /\ wres' = [wres EXCEPT ![w] = None]
    /\ wpc' = [wpc EXCEPT ![w] = "free"]
    /\ stale' = Keep(stale)
    /\ calls' = <<>>
    /\ UNCHANGED <<game, holder, saved, asked, appVars>>

Next ==
    \/ Tick
    \/ TickUninitialized
    \/ TickMoveAttempt
    \/ TickEngineThinking
    \/ TickEnginePlaying
    \/ \E idx \in Squares : ClickSquare(idx)
    \/ ClickTag
    \/ \E val \in SliderValues : SliderChange(val)
    \/ ToggleEngineWhite
    \/ ToggleEngineBlack
    \/ Rotate
    \/ \E button \in {"new_game", "print"} : PressLocked(button)
    \/ NewGame
    \/ PrintMovelist
    \/ \E w \in Workers : WorkerLock(w)
    \/ \E w \in Workers : ProbeDo(w)
    \/ \E w \in Workers : ProbeUndo(w)
    \/ \E w \in Workers : ReplyReturn(w)
    \/ \E w \in Workers : WorkerSend(w)

Spec == Init /\ [][Next]_vars

\* ----------------------------------------------------------------- claims

\* The position as the applied moves left it: a running search restores it
\* after each probe.
Position == IF saved # None THEN saved[1] ELSE game

\* The engine calls of the last step with operation `op`.
CallsOf(op) == {i \in DOMAIN calls : calls[i].op = op}

\* The do_move calls of the last step that applied a reply result.
EngineMoves == {i \in CallsOf("do_move") : calls[i].mvstate # ""}

\* The do_move calls of the last step that applied a move entered by clicks.
HumanMoves == {i \in CallsOf("do_move") : calls[i].mvstate = ""}

\* The interactive thread stands at a blocking lock() of the game mutex.
MainAtLock ==
    \/ mpc \in {"click", "new_game", "print"}
    \/ /\ mpc = "tick"
       /\ \/ phase = "Uninitialized"
          \/ phase = "MoveAttempt" /\ pending_move # None
          \/ phase = "EnginePlaying" /\ rx # None /\ chan[rx[1]] # None

\* C1: every engine call on the shared game (get_board, tag, move_is_valid2,
\* do_move, move_to_str, reset_game, print_move_list, reply) is made while no
\* search thread is inside reply: the mutex serializes them, and no board
\* snapshot is taken in the middle of a search.
C1_EngineCallsSerialized == \A i \in DOMAIN calls : ~calls[i].searching

\* A search is probing while the tick, having found the mutex taken, went on
\* without a snapshot.
C1_Witness == Searching /\ saved # None /\ mpc = "tick" /\ calls = <<>>

\* C2: do_move is never invoked with the src/dst of a reply result whose
\* state is a terminal classification (checkmate or drawn).
C2_NoTerminalResultApplied == \A i \in EngineMoves : calls[i].mvstate \notin TerminalStates

\* C3: a reply result with a terminal classification (checkmate or drawn)
\* received in the EnginePlaying phase puts the session into Phase::Inactive
\* in the same tick.
C3_TerminalEntersInactive ==
    \A i \in EngineMoves : calls[i].mvstate \in TerminalStates => phase = "Inactive"

\* C4: once the phase is Inactive, every step other than New game leaves it
\* Inactive and invokes neither do_move nor reply.
C4_GameOverAbsorbing ==
    [][(phase = "Inactive" /\ mpc # "new_game") =>
          /\ phase' = "Inactive"
          /\ \A i \in DOMAIN calls' : calls'[i].op \notin {"do_move", "reply"}]_vars

\* C5: the MoveAttempt tick invokes do_move only after move_is_valid2
\* returned true for the same (from, to) pair in the same step under the
\* mutex; for a pair that is not valid it leaves the game and the move list
\* unchanged, sets the status to "Invalid move." and the phase to
\* Uninitialized.
C5_HumanMoveValidated ==
    [][(mpc = "tick" /\ phase = "MoveAttempt" /\ mpc' = "idle") =>
          /\ \A i \in DOMAIN calls' :
                (calls'[i].op = "do_move") =>
                   \E j \in 1 .. (i - 1) :
                      /\ calls'[j].op = "move_is_valid2"
                      /\ calls'[j].args = calls'[i].args
                      /\ calls'[j].res = "true"
          /\ (pending_move # None
              /\ ~move_is_valid2(game, pending_move[1], pending_move[2])) =>
                /\ game' = game
                /\ movelist' = movelist
                /\ status' = INVALID_MOVE
                /\ phase' = "Uninitialized"]_vars

\* The MoveAttempt tick has validated and applied a human move.
C5_Witness ==
    /\ Len(calls) = 3
    /\ calls[1].op = "move_is_valid2" /\ calls[1].res = "true"
    /\ calls[2].op = "do_move" /\ calls[2].mvstate = ""

\* C6: a move entered by board clicks is applied with do_move only when the
\* player configured for the side to move, players[move_counter % 2], is
\* Human.
C6_HumanMoveOnHumanTurn == \A i \in HumanMoves : players[calls[i].mc % 2] = Human

\* C7: whenever the EngineThinking tick spawns a search thread,
\* players[move_counter % 2] is Engine at that moment.
C7_SearchOnEngineTurn ==
    [][(\E w \in Workers : wpc[w] # "spawned" /\ wpc'[w] = "spawned") =>
          players[Position.move_counter % 2] = Engine]_vars

\* A search was spawned after UI events had happened.
C7_Witness == events > 0 /\ phase = "EnginePlaying" /\ \E w \in Workers : wpc[w] = "spawned"

\* C8: an engine move received from the channel is applied with do_move only
\* if since the dispatch of its search no do_move and no reset_game was
\* performed and no New game, checkbox toggle or board click abandoned it.
C8_StaleNeverApplied == \A i \in EngineMoves : ~calls[i].stale

\* An engine move was applied while an abandoned search was still around.
C8_Witness == EngineMoves # {} /\ stale # {}

\* C9, as stated: at most one search is outstanding (dispatched, its reply
\* not yet returned) at any time.
C9_AtMostOneOutstanding ==
    Cardinality({w \in Workers : wpc[w] \in {"spawned", "reply", "probe"}}) <= 1

\* C9, amended: several searches may be outstanding, but at most one of them
\* is inside reply at any time; the others wait for the game mutex.
C9_AtMostOneReplyRunning == Cardinality(InReply) <= 1

\* One search is inside reply while another, dispatched later, waits.
C9_Witness == \E w, v \in Workers : wpc[w] \in {"reply", "probe"} /\ wpc[v] = "spawned"

\* C10: while a reply call is executing, the interactive thread never waits
\* for the game mutex.
C10_NeverBlocksOnSearch == ~(MainAtLock /\ Searching)

\* The fields of AppState, the game included.
Session ==
    [game |-> game, board |-> board, selected |-> selected, square_tags |-> square_tags,
     phase |-> phase, status |-> status, players |-> players,
     engine_plays_white |-> engine_plays_white, engine_plays_black |-> engine_plays_black,
     rotated |-> rotated, time_per_move |-> time_per_move, time_elapsed |-> time_elapsed,
     turn |-> turn, pending_move |-> pending_move, movelist |-> movelist, rx |-> rx]

\* The "New game" callback as a function of the session it is pressed in.
NewGameOn(s) ==
    [s EXCEPT !.game = reset_game(s.game),
              !.board = engine_to_board(get_board(reset_game(s.game))),
              !.square_tags = NoTags,
              !.selected = None,
              !.pending_move = None,
              !.rx = None,
              !.phase = "Uninitialized",
              !.time_elapsed = [i \in {0, 1} |-> 0],
              !.movelist = <<>>]

\* C11: New game restores the session: after it the board is the starting
\* layout, move_counter is 0, the move list is empty, both clocks are 0, no
\* square is selected, no move is pending, rx is None and the phase is
\* Uninitialized; and it is idempotent: New game pressed in the session it
\* left behind gives that same session.
C11_NewGameRestores ==
    [][(mpc = "new_game" /\ mpc' = "idle") =>
          /\ Session' = NewGameOn(Session)
          /\ game'.board = StartBoard
          /\ game'.move_counter = 0
          /\ board' = engine_to_board(StartBoard)
          /\ movelist' = <<>>
          /\ time_elapsed' = [i \in {0, 1} |-> 0]
          /\ selected' = None
          /\ pending_move' = None
          /\ rx' = None
          /\ phase' = "Uninitialized"
          /\ NewGameOn(Session') = Session']_vars

\* New game was pressed after a move had been applied, and the session is
\* back at the start.
C11_Witness ==
    /\ calls # <<>>
    /\ calls[1].op = "reset_game"
    /\ calls[1].mc > 0
    /\ movelist = <<>>
    /\ game.move_counter = 0

\* C12: the move list records exactly the applied moves: in every reachable
\* state the length of movelist equals the move_counter of the position.
C12_MovelistMatchesCounter == Len(movelist) = Position.move_counter

\* C13: turn is the side to move: in every reachable state whose phase is
\* Ready, MoveAttempt, EngineThinking or EnginePlaying, turn equals
\* move_counter % 2 of the position.
C13_TurnIsSideToMove == phase \in ActivePhases => turn = Position.move_counter % 2

\* The board and the move counter of a game: what do_move changes.
PositionOf(g) == [board |-> g.board, move_counter |-> g.move_counter]

\* C14: whenever the MoveAttempt tick calls do_move(from, to), the position
\* has not changed since the first click that selected `from`, and `to` was
\* among the destinations tag returned for `from` at that click.
C14_MoveTargetWasOffered ==
    [][(mpc = "tick" /\ phase = "MoveAttempt" /\ mpc' = "idle"
        /\ \E i \in DOMAIN calls' : calls'[i].op = "do_move") =>
          /\ offered # None
          /\ PositionOf(offered[1]) = PositionOf(game)
          /\ pending_move[2] \in tag(offered[1], pending_move[1])]_vars

\* The program with ticks that go on after the counted range of the clocks,
\* under the scheduling the claim assumes: the timer keeps ticking, a tick
\* that has started goes on once it can, every search thread is scheduled,
\* and every reply call returns.  The slider, Rotate and Print movelist,
\* which touch neither the phase nor the game nor a search, are left out.
LiveNext ==
    \/ Tick
    \/ TickOverrun
    \/ TickUninitialized
    \/ TickMoveAttempt
    \/ TickEngineThinking
    \/ TickEnginePlaying
    \/ \E idx \in Squares : ClickSquare(idx)
    \/ ClickTag
    \/ ToggleEngineWhite
    \/ ToggleEngineBlack
    \/ PressLocked("new_game")
    \/ NewGame
    \/ \E w \in Workers : WorkerLock(w)
    \/ \E w \in Workers : ProbeDo(w)
    \/ \E w \in Workers : ProbeUndo(w)
    \/ \E w \in Workers : ReplyReturn(w)
    \/ \E w \in Workers : WorkerSend(w)

\* One step of the timer's tick, and one step of a search thread outside the
\* search proper.
TickStep ==
    \/ Tick
    \/ TickOverrun
    \/ TickUninitialized
    \/ TickMoveAttempt
    \/ TickEngineThinking
    \/ TickEnginePlaying

WorkerStep(w) == WorkerLock(w) \/ ProbeUndo(w) \/ WorkerSend(w)

Fairness ==
    /\ WF_vars(TickStep)
    /\ \A w \in Workers : WF_vars(WorkerStep(w)) /\ SF_vars(ReplyReturn(w))

LiveSpec == Init /\ [][LiveNext]_vars /\ Fairness

\* The phase is EngineThinking, the tick is free to run, and no UI event
\* will follow; the move list has room for the engine's move.
SearchDueAndQuiet ==
    /\ phase = "EngineThinking"
    /\ mpc \in {"idle", "tick"}
    /\ events = MaxEvents
    /\ Len(movelist) < MaxMoves

\* The EnginePlaying tick has just called do_move with a received move and
\* left the engine phases.
EngineMoveConsumed == EngineMoves # {} /\ phase \in {"Uninitialized", "Inactive"}

\* C15: if the phase becomes EngineThinking and afterwards only ticks occur,
\* then eventually the engine's move is applied with do_move and the phase
\* becomes Uninitialized or Inactive.
C15_SearchEventuallyConsumed == SearchDueAndQuiet ~> EngineMoveConsumed

\* After the last UI event a search was dispatched while an older search
\* thread still waited for the mutex, and its move has been consumed.
C15_Witness ==
    /\ events = MaxEvents
    /\ EngineMoveConsumed
    /\ \E w \in Workers : wpc[w] \in {"spawned", "reply", "probe"}

\* C16: at the start of each reply call, secs_per_move of the game is the
\* value time_per_move had (as an f32) at the EngineThinking tick that
\* dispatched that call.
C16_SearchUsesConfiguredBudget ==
    [][\A w \in Workers :
          (wpc[w] = "spawned" /\ wpc'[w] = "reply") =>
             game.secs_per_move = AsF32(asked[w])]_vars

\* C17: every move_to_str(from, to, flag) call is preceded, in the same hold
\* of the game mutex and with no other engine call in between, by the
\* do_move(from, to) call that returned that flag; it is evaluated against
\* the position after that move, and its result is the entry appended to
\* the move list.
C17_NotationAfterMove ==
    \A i \in CallsOf("move_to_str") :
        /\ i > 1
        /\ calls[i - 1].op = "do_move"
        /\ calls[i - 1].args = <<calls[i].args[1], calls[i].args[2]>>
        /\ calls[i - 1].res = calls[i].args[3]
        /\ calls[i].mc = game.move_counter
        /\ calls[i].res = move_to_str(game, calls[i].args[1], calls[i].args[2],
                                      calls[i].args[3])
        /\ movelist # <<>>
        /\ movelist[Len(movelist)] = calls[i].res

\* A capture of the last piece of the other side has just been rendered: the
\* notation carries the suffix of the position after the move.
C17_Witness ==
    \E i \in CallsOf("move_to_str") :
        /\ calls[i].args[3] = FLAG_CAPTURE
        /\ calls[i].res[4] = "#"

\* The step is the start of a tick: the interactive thread was idle, and the
\* step is neither a UI event nor a step of a search thread.
TickStarts == mpc = "idle" /\ events' = events /\ wpc' = wpc

\* C18: a tick in phase Uninitialized or Inactive leaves both clocks
\* unchanged; a tick in phase Ready, MoveAttempt, EngineThinking or
\* EnginePlaying adds one tick interval to time_elapsed[turn] and leaves the
\* other clock unchanged; no other part of the tick and no other step
\* advances a clock.
C18_ClocksAdvanceInActivePhases ==
    [][/\ (TickStarts /\ phase \in {"Uninitialized", "Inactive"}) =>
             time_elapsed' = time_elapsed
       /\ (TickStarts /\ phase \in {"Ready", "MoveAttempt", "EngineThinking",
                                    "EnginePlaying"}) =>
             /\ time_elapsed'[turn] = time_elapsed[turn] + 1
             /\ time_elapsed'[1 - turn] = time_elapsed[1 - turn]
       /\ mpc = "tick" => time_elapsed' = time_elapsed
       /\ \A i \in {0, 1} :
             time_elapsed'[i] > time_elapsed[i] =>
                TickStarts /\ i = turn
                /\ phase \in {"Ready", "MoveAttempt", "EngineThinking", "EnginePlaying"}]_vars

\* A tick has just charged one side while the other side's clock already
\* shows time.
C18_Witness ==
    /\ mpc = "tick"
    /\ phase \in {"MoveAttempt", "EngineThinking", "EnginePlaying"}
    /\ time_elapsed[0] > 0
    /\ time_elapsed[1] > 0

====
